---- MODULE Spec2Model ----
(***************************************************************************)
(* Model of the prediction-to-annotation pipeline of Automatic_labeling:   *)
(* the Yoloe adapter session (init_model) and one batch of predict_image   *)
(* with its class mapping (_generate_class_mapping) and its per-image      *)
(* annotation writer (_write_annotation_file).                             *)
(*                                                                         *)
(* The detector is opaque: what it loads, binds and returns is drawn from  *)
(* small sets.  The file system is the output directory of the current     *)
(* batch: a function from file names to lists of lines.                    *)
(***************************************************************************)
EXTENDS Integers, Sequences, FiniteSets, TLC

\* ------------------------------------------------------------- bounds
\* longest images_path list handed to predict_image
MaxImages == 2
\* most boxes the detector returns over one batch
MaxBoxes == 2
\* largest class id the detector emits
MaxClassId == 1

ClassIds == 0..MaxClassId

\* ------------------------------------------------------------- strings
\* A raw string is a sequence of one-character strings, so that strip() and
\* the illegal-character test are computed; Join gives the string itself.
RECURSIVE Join(_)
Join(cs) == IF cs = <<>> THEN "" ELSE cs[1] \o Join(Tail(cs))

RECURSIVE LStrip(_)
LStrip(cs) == IF cs # <<>> /\ cs[1] = " " THEN LStrip(Tail(cs)) ELSE cs

RECURSIVE RStrip(_)
RStrip(cs) ==
    IF cs # <<>> /\ cs[Len(cs)] = " " THEN RStrip(SubSeq(cs, 1, Len(cs) - 1)) ELSE cs

\* str.strip()
Strip(cs) == RStrip(LStrip(cs))

\* the characters validate_prompts rejects
IllegalChars == {"/", "\\", ":", "*", "?", "\"", "<", ">", "|"}

SelectNonBlank(items) == SelectSeq(items, LAMBDA cs : Strip(cs) # <<>>)

\* Validator.validate_prompts on a list: [ok, names]
validate_prompts(prompts) ==
    LET prompt_list == [i \in 1..Len(SelectNonBlank(prompts)) |->
                            Strip(SelectNonBlank(prompts)[i])]
    IN  IF prompt_list = <<>>
        THEN [ok |-> FALSE, names |-> <<>>]
        ELSE IF \E i \in 1..Len(prompt_list) :
                    \E k \in 1..Len(prompt_list[i]) : prompt_list[i][k] \in IllegalChars
             THEN [ok |-> FALSE, names |-> <<>>]
             ELSE [ok |-> TRUE,
                   names |-> [i \in 1..Len(prompt_list) |-> Join(prompt_list[i])]]

\* config.valid_models (the defaults of the configuration module)
valid_models == {"yoloe-11l-seg.pt", "yoloe-11m-seg.pt", "yoloe-11s-seg.pt"}

\* Validator.validate_model_name
validate_model_name(model_name) == model_name \in valid_models

\* f"class_{cls_id}"
ClassFallback(cls_id) == "class_" \o ToString(cls_id)

\* ------------------------------------------------------------- name tables
\* A name table as the code tests it: no attribute at all, a dict (class id
\* to name), a list or tuple (position to name), or a value of another type.
NoTable == [kind |-> "absent", tbl |-> <<>>]
ListTable(names) == [kind |-> "list", tbl |-> names]
DictTable(f) == [kind |-> "dict", tbl |-> f]
OtherTable == [kind |-> "other", tbl |-> <<>>]

\* {i: names[i]} for the positions in ids
DictOf(names, ids) ==
    DictTable([c \in {i \in ids : i < Len(names)} |-> names[c + 1]])

\* What the opaque detector may expose once a vocabulary is bound:
\* names is self.model.model.names, rnames the names carried by its results.
Detectors(vn) ==
    { [names |-> ListTable(vn), rnames |-> DictOf(vn, 0..Len(vn))],
      [names |-> NoTable, rnames |-> NoTable],
      [names |-> DictOf(vn, {0}), rnames |-> NoTable],
      [names |-> DictOf(vn, 0..Len(vn)), rnames |-> DictTable(0 :> "object")] }

\* the model files present under config.models_path
model_files == {"yoloe-11l-seg.pt"}

\* model_name arguments tried
ModelArgs == {"yoloe-11l-seg.pt", "yoloe-11m-seg.pt", "other.pt"}

\* names arguments tried (raw, before validation)
PromptArgs ==
    { << <<"p","e","r","s","o","n">>, <<" ","c","a","r">> >>,
      << <<" ","c","a","t">>, <<" ">>, <<"c","a","t"," ">> >>,
      << <<"a","/","b">> >>,
      << <<" ">> >>,
      << >> }

\* ------------------------------------------------------------- state
VARIABLES
    \* the adapter session (Yoloe.__init__)
    model,              \* self.model: [loaded, file, bound, names, rnames]
    model_name,         \* self.model_name ("" for None)
    class_names,        \* self.class_names (<<>> for None)
    is_initialized,     \* self.is_initialized
    init_ret,           \* how the last init_model ended
    \* the batch of the current predict_image call
    pc,                 \* Idle, Validating, Inferring, Mapping, Writing, Done, Failed
    out_dir_exists,     \* the output directory of this call exists
    files,              \* its content: file name -> lines
    images_arg,         \* the images_path still to be validated by this call
    validated_images,   \* validated_images
    attempts,           \* outcome of each image attempted so far, in order
    n_boxes,            \* boxes the detector returned so far in this batch
    class_counter,      \* class_counter: class id -> count
    all_results,        \* all_results: [image_path, detections]
    successful_predictions,
    failed_predictions,
    class_to_idx,       \* class_to_idx: name -> index
    writes,             \* outcome of each per-image write so far, in order
    annotation_files_created,
    stats,              \* the statistics returned (<<>> until Done)
    raised,             \* the exception predict_image raised: [type, msg]
    \* a batch repeated on the same adapter with the same inputs
    script,             \* the image list of the first call and what the detector did: [images, outs]
    run,                \* predict_image calls started so far
    first,              \* what the first call left: [files, stats, raised]
    \* one run of main()
    args,               \* the parsed command line, and the scanned image list
    main_pc,            \* position in main and run_automatic_labeling
    calls,              \* the steps run_automatic_labeling has invoked, in order
    thrown,             \* the exception that ended run_automatic_labeling or main
    outcome,            \* how run_automatic_labeling ended: stats, None or a raised type
    exit_code           \* what main returned (-1 until it returns)

session == <<model, model_name, class_names, is_initialized, init_ret>>
batch == <<pc, out_dir_exists, files, images_arg, validated_images, attempts, n_boxes,
           class_counter, all_results, successful_predictions, failed_predictions,
           class_to_idx, writes, annotation_files_created, stats, raised>>
replay == <<script, run, first>>
cli == <<args, main_pc, calls, thrown, outcome, exit_code>>
vars == <<session, batch, replay, cli>>

NoModel == [loaded |-> FALSE, file |-> "", bound |-> <<>>, names |-> NoTable, rnames |-> NoTable]

NotRaised == [type |-> "", msg |-> ""]

NoScript == [images |-> <<>>, outs |-> <<>>]

\* no batch is being repeated
NoReplay ==
    /\ script = NoScript
    /\ run = 0
    /\ first = <<>>

NoArgs == [model_name |-> "", prompts |-> <<>>, conf |-> [is_number |-> TRUE, tenths |-> 0],
           folders_ok |-> TRUE, images |-> <<>>]

\* the adapter is not driven by main()
NoMain ==
    /\ args = NoArgs
    /\ main_pc = "none"
    /\ calls = <<>>
    /\ thrown = ""
    /\ outcome = ""
    /\ exit_code = -1

\* Yoloe.__init__ and no predict_image call yet
Constructed ==
    /\ model = NoModel
    /\ model_name = ""
    /\ class_names = <<>>
    /\ is_initialized = FALSE
    /\ init_ret = "none"
    /\ pc = "Idle"
    /\ out_dir_exists = FALSE
    /\ files = <<>>
    /\ images_arg = <<>>
    /\ validated_images = <<>>
    /\ attempts = <<>>
    /\ n_boxes = 0
    /\ class_counter = <<>>
    /\ all_results = <<>>
    /\ successful_predictions = 0
    /\ failed_predictions = 0
    /\ class_to_idx = <<>>
    /\ writes = <<>>
    /\ annotation_files_created = 0
    /\ stats = <<>>
    /\ raised = NotRaised

\* An adapter used directly: any sequence of init_model and predict_image calls.
Init ==
    /\ Constructed
    /\ NoReplay
    /\ NoMain

\* No call is in flight on the adapter (calls are synchronous).  A call made
\* after predict_image returned or raised starts from the same session, fresh
\* locals and a fresh output directory as one made from Idle, and every
\* session is reached in Idle (init_model ends there): such a call reaches
\* no other state, so new calls are made from Idle.
AtRest == pc = "Idle"

\* Locals whose class counter outlives the call.
StaleCounter ==
    /\ attempts' = <<>>
    /\ n_boxes' = 0
    /\ class_counter' = class_counter
    /\ all_results' = <<>>
    /\ successful_predictions' = 0
    /\ failed_predictions' = 0
    /\ class_to_idx' = <<>>
    /\ writes' = <<>>
    /\ annotation_files_created' = 0
    /\ stats' = <<>>

\* the locals of predict_image before its loops, lines 130-133
FreshLocals ==
    /\ attempts' = <<>>
    /\ n_boxes' = 0
    /\ class_counter' = <<>>
    /\ all_results' = <<>>
    /\ successful_predictions' = 0
    /\ failed_predictions' = 0
    /\ class_to_idx' = <<>>
    /\ writes' = <<>>
    /\ annotation_files_created' = 0
    /\ stats' = <<>>

\* The exception raised inside the try block of init_model, lines 47-61, in
\* the order of its statements ("" when the block runs to its return).
InitFailure(prompts_ok, name_ok, file_ok, load_ok, bind_ok) ==
    IF ~prompts_ok \/ ~name_ok THEN "InvalidParameterError"
    ELSE IF ~file_ok THEN "ModelInitializationError"
    ELSE IF ~load_ok \/ ~bind_ok THEN "Exception"
    ELSE ""

\* A handler that lets the exception through as it is.
InitSurfacedAsIs(type) == type

\* The type init_model raises for an exception raised inside it: the except
\* clause of lines 71-75.
InitSurfaced(type) == "ModelInitializationError"

\* Yoloe.init_model(model_name, names); load_ok: YOLOE(path) returns,
\* bind_ok: get_text_pe and set_classes return, det: what the bound model exposes.
init_model(name_arg, names_arg, load_ok, bind_ok, det) ==
    LET vp == validate_prompts(names_arg)
        args_ok == vp.ok /\ validate_model_name(name_arg) /\ name_arg \in model_files
        failure == InitFailure(vp.ok, validate_model_name(name_arg),
                               name_arg \in model_files, load_ok, bind_ok)
    IN  /\ AtRest
        /\ IF failure = ""
           THEN /\ model' = [loaded |-> TRUE, file |-> name_arg, bound |-> vp.names,
                             names |-> det.names, rnames |-> det.rnames]
                /\ model_name' = name_arg
                /\ class_names' = vp.names
                /\ is_initialized' = TRUE
                /\ init_ret' = "True"
           \* line 57 has replaced self.model when line 61 raises
           ELSE /\ model' = IF args_ok /\ load_ok
                            THEN [loaded |-> TRUE, file |-> name_arg, bound |-> <<>>,
                                  names |-> NoTable, rnames |-> NoTable]
                            ELSE model
                /\ is_initialized' = FALSE
                /\ init_ret' = InitSurfaced(failure)
                /\ UNCHANGED <<model_name, class_names>>
        \* the call that returned before, and its output directory, leave the view
        /\ pc' = "Idle"
        /\ out_dir_exists' = FALSE
        /\ files' = <<>>
        /\ images_arg' = <<>>
        /\ validated_images' = <<>>
        /\ raised' = NotRaised
        /\ FreshLocals

InitModel ==
    /\ AtRest
    /\ \E name_arg \in ModelArgs, names_arg \in PromptArgs, load_ok, bind_ok \in BOOLEAN :
          \E det \in Detectors(validate_prompts(names_arg).names) :
              init_model(name_arg, names_arg, load_ok, bind_ok, det)
    /\ UNCHANGED <<replay, cli>>

\* len(self.class_names) if self.class_names else 0
NumClasses(names) == IF names # <<>> THEN Len(names) ELSE 0

\* A report that counts no class.
get_model_info_NoCount(initialized, name, names) ==
    [is_initialized |-> initialized, model_name |-> name, class_names |-> names,
     num_classes |-> 0]

\* Yoloe.get_model_info
get_model_info(initialized, name, names) ==
    [is_initialized |-> initialized, model_name |-> name, class_names |-> names,
     num_classes |-> NumClasses(names)]

\* ------------------------------------------------------------- predict_image: validation
\* config.default_image_extensions (the defaults of the configuration module)
default_image_extensions == {".png", ".jpg", ".jpeg"}

\* str.lower() on the suffixes that occur
Lower(suffix) ==
    CASE suffix = ".PNG" -> ".png"
      [] suffix = ".JPG" -> ".jpg"
      [] OTHER -> suffix

\* The paths tried, in the order a scan lists them: a path is its directory,
\* stem and suffix, and what the file system says about it.
Paths ==
    << [dir |-> "imgs", stem |-> "a", suffix |-> ".jpg", exists |-> TRUE, is_file |-> TRUE],
       [dir |-> "imgs", stem |-> "notes", suffix |-> ".txt", exists |-> TRUE, is_file |-> TRUE],
       [dir |-> "imgs", stem |-> "a", suffix |-> ".PNG", exists |-> TRUE, is_file |-> TRUE],
       [dir |-> "imgs", stem |-> "sub", suffix |-> ".jpg", exists |-> TRUE, is_file |-> FALSE],
       [dir |-> "imgs", stem |-> "b", suffix |-> ".jpg", exists |-> TRUE, is_file |-> TRUE],
       [dir |-> "imgs", stem |-> "gone", suffix |-> ".jpg", exists |-> FALSE, is_file |-> FALSE],
       [dir |-> "imgs", stem |-> "classes", suffix |-> ".jpg", exists |-> TRUE, is_file |-> TRUE] >>

\* images_path arguments tried: up to MaxImages of the paths, in scan order
PathLists ==
    { [i \in 1..Len(pos) |-> Paths[pos[i]]] :
        pos \in UNION { { q \in [1..n -> 1..Len(Paths)] :
                            \A i, j \in 1..n : i < j => q[i] < q[j] } :
                        n \in 0..MaxImages } }

\* Validator.validate_image_file: TRUE when it returns the path
validate_image_file(path) ==
    /\ path.exists
    /\ path.is_file
    /\ Lower(path.suffix) \in default_image_extensions

\* conf arguments tried: a number in tenths, or a value that is no number
Confs ==
    { [is_number |-> TRUE, tenths |-> t] : t \in {-1, 0, 5, 10, 20} }
        \cup { [is_number |-> FALSE, tenths |-> 0] }

\* Validator.validate_confidence: TRUE when it returns float(conf)
validate_confidence(conf) ==
    /\ conf.is_number
    /\ 0 <= conf.tenths /\ conf.tenths <= 10

\* A handler that re-raises whatever reaches it.
SurfacedAsIs(type) == type

\* A handler whose first clause catches Exception.
SurfacedAllAsPrediction(type) == "ModelPredictionError"

\* The type predict_image raises for an exception of the given type raised
\* inside it: the except clauses of lines 209-215.
Surfaced(type) ==
    IF type \in {"ModelPredictionError", "FileOperationError"}
    THEN type
    ELSE "ModelPredictionError"

\* A body that creates the output directory before it checks the confidence.
DirCreatedBeforeConfidence(msg) ==
    msg \in {"unknown: InvalidParameterError", "empty list", "no valid images",
             "class mapping"}

\* The failures raised after output_path.mkdir returned: line 108 precedes
\* the checks of lines 112-125 and the mapping of line 173.
DirCreatedBefore(msg) == msg \in {"empty list", "no valid images", "class mapping"}

\* A handler that also marks the adapter as not initialized.
RaiseNotReady(type, msg) ==
    /\ pc' = "Failed"
    /\ raised' = [type |-> Surfaced(type), msg |-> msg]
    /\ out_dir_exists' = DirCreatedBefore(msg)
    /\ validated_images' = <<>>
    /\ is_initialized' = FALSE
    /\ UNCHANGED <<model, model_name, class_names, init_ret>>

\* predict_image raises: an exception of the given type leaves the try block;
\* the except clauses of lines 209-215 assign no attribute of the adapter.
Raise(type, msg) ==
    /\ pc' = "Failed"
    /\ raised' = [type |-> Surfaced(type), msg |-> msg]
    /\ out_dir_exists' = DirCreatedBefore(msg)
    /\ validated_images' = <<>>
    /\ UNCHANGED session

\* An adapter that only checks that a model object is there.
validate_model_ready_ModelOnly(initialized, m) == m.loaded

\* Yoloe._validate_model_ready: TRUE when it returns
validate_model_ready(initialized, m) == initialized /\ m.loaded

\* Yoloe.predict_image up to the loop over its paths (lines 98-113), into a
\* fresh output directory; mkdir_ok: output_path.mkdir returns.
predict_image(images_path, conf, mkdir_ok) ==
    /\ AtRest
    /\ FreshLocals
    /\ files' = <<>>
    /\ IF ~validate_model_ready(is_initialized, model)
       THEN Raise("ModelPredictionError", "not initialized") /\ images_arg' = <<>>
       ELSE IF ~validate_confidence(conf)
       THEN Raise("InvalidParameterError", "unknown: InvalidParameterError")
                /\ images_arg' = <<>>
       ELSE IF ~mkdir_ok
       THEN Raise("FileOperationError", "mkdir") /\ images_arg' = <<>>
       ELSE IF images_path = <<>>
       THEN Raise("ModelPredictionError", "empty list") /\ images_arg' = <<>>
       ELSE /\ pc' = "Validating"
            /\ raised' = NotRaised
            /\ out_dir_exists' = TRUE
            /\ images_arg' = images_path
            /\ validated_images' = <<>>
            /\ UNCHANGED session

PredictImage ==
    /\ AtRest
    /\ \E images_path \in PathLists, conf \in Confs, mkdir_ok \in BOOLEAN :
          predict_image(images_path, conf, mkdir_ok)
    /\ UNCHANGED <<replay, cli>>

\* A loop that keeps every path, valid or not.
KeepAll(paths) == paths

\* The loop of lines 116-122: the paths validate_image_file returns, in
\* order; a path it rejects is logged and skipped.
KeepValid(paths) == SelectSeq(paths, validate_image_file)

\* Lines 115-125: the paths are validated, and a batch without a valid path fails.
ValidateImages ==
    /\ pc = "Validating"
    /\ images_arg' = <<>>
    /\ IF KeepValid(images_arg) = <<>>
       THEN Raise("ModelPredictionError", "no valid images")
       ELSE /\ pc' = "Inferring"
            /\ validated_images' = KeepValid(images_arg)
            /\ UNCHANGED <<session, out_dir_exists, raised>>
    /\ UNCHANGED <<files, attempts, n_boxes, class_counter, all_results,
                   successful_predictions, failed_predictions, class_to_idx, writes,
                   annotation_files_created, stats>>
    /\ UNCHANGED <<replay, cli>>

\* ------------------------------------------------------------- predict_image: inference loop
\* A box as the loop sees it: box.cls is None ("nocls"), int(box.cls.item())
\* raises ("badcls"), or it yields the class id ("det").  xywhn is None, a
\* value whose conversion raises ("bad"), or four normalised coordinates.
Boxes ==
    { [kind |-> "nocls", id |-> 0, xywhn |-> "xywhn"],
      [kind |-> "badcls", id |-> 0, xywhn |-> "xywhn"],
      [kind |-> "det", id |-> 0, xywhn |-> "None"],
      [kind |-> "det", id |-> 0, xywhn |-> "bad"] }
        \cup { [kind |-> "det", id |-> c, xywhn |-> "xywhn"] : c \in ClassIds }

BoxLists(n) == UNION { [1..k -> Boxes] : k \in 0..n }

\* What model.predict does for one image: it raises, returns no result,
\* returns a result without boxes, or a result with a list of boxes.
Outcomes(n) ==
    { [kind |-> k, boxes |-> <<>>] : k \in {"raise", "empty", "no_boxes"} }
        \cup { [kind |-> "boxes", boxes |-> b] : b \in BoxLists(n) }

\* class_counter[cls_id] += 1 on a defaultdict(int)
Increment(counter, cls_id) ==
    IF cls_id \in DOMAIN counter
    THEN [counter EXCEPT ![cls_id] = @ + 1]
    ELSE (cls_id :> 1) @@ counter

\* A test that takes every box as classified.
HasClsAlways(box) == TRUE

\* box.cls is not None, line 156
HasCls(box) == box.kind # "nocls"

\* The loop of lines 155-159 over result.boxes: the counter and the
\* detections when it ends, and whether it ended by an exception.
RECURSIVE Collect(_, _, _)
Collect(boxes, counter, detections) ==
    IF boxes = <<>>
    THEN [counter |-> counter, detections |-> detections, raised |-> FALSE]
    ELSE IF ~HasCls(boxes[1])
    THEN Collect(Tail(boxes), counter, detections)
    ELSE IF boxes[1].kind = "badcls"
    THEN [counter |-> counter, detections |-> detections, raised |-> TRUE]
    ELSE Collect(Tail(boxes), Increment(counter, boxes[1].id),
                 Append(detections, [id |-> boxes[1].id, xywhn |-> boxes[1].xywhn]))

\* A loop that lets an image whose prediction raised count as predicted.
PredictionFailedOnlyEmpty(out, collected) == out.kind = "empty"

\* A loop that counts an image without a result as predicted.
PredictionFailedOnlyRaise(out, collected) ==
    \/ out.kind = "raise"
    \/ out.kind = "boxes" /\ collected.raised

\* A loop that also counts a result without detections as failed.
PredictionFailedNoDetections(out, collected) ==
    \/ out.kind \in {"raise", "empty", "no_boxes"}
    \/ out.kind = "boxes" /\ (collected.raised \/ collected.detections = <<>>)

\* The image is counted failed: no result (lines 141-144) or an exception
\* in predict or in the loop over the boxes (lines 164-167).
PredictionFailed(out, collected) ==
    \/ out.kind \in {"raise", "empty"}
    \/ out.kind = "boxes" /\ collected.raised

\* A loop that never sees the end of its list.
LoopDoneNever(done, images) == FALSE

\* A loop left after its first iteration.
LoopDoneAfterFirst(done, images) == Len(done) >= 1

\* for image_path in validated_images (line 136) is exhausted
LoopDone(done, images) == Len(done) = Len(images)

\* One iteration of the loop of lines 136-167, for the next validated image.
infer_image(out) ==
    LET image_path == validated_images[Len(attempts) + 1]
        c == Collect(out.boxes, class_counter, <<>>)
        failed == PredictionFailed(out, c)
    IN  /\ pc = "Inferring"
        /\ Len(attempts) < Len(validated_images)
        /\ n_boxes + Len(out.boxes) <= MaxBoxes
        /\ n_boxes' = n_boxes + Len(out.boxes)
        /\ class_counter' = IF out.kind = "boxes" THEN c.counter ELSE class_counter
        /\ IF failed
           THEN /\ failed_predictions' = failed_predictions + 1
                /\ UNCHANGED <<successful_predictions, all_results>>
           ELSE /\ successful_predictions' = successful_predictions + 1
                /\ all_results' = Append(all_results,
                        [image_path |-> image_path,
                         detections |-> IF out.kind = "boxes" THEN c.detections ELSE <<>>])
                /\ UNCHANGED failed_predictions
        /\ attempts' = Append(attempts,
                IF out.kind = "empty" THEN "empty"
                ELSE IF out.kind = "raise" \/ (out.kind = "boxes" /\ c.raised)
                THEN "raise" ELSE "ok")
        /\ pc' = IF LoopDone(attempts', validated_images) THEN "Mapping" ELSE "Inferring"
        /\ UNCHANGED <<session, out_dir_exists, files, images_arg, validated_images, class_to_idx,
                       writes, annotation_files_created, stats, raised>>

InferImage ==
    /\ pc = "Inferring"
    /\ \E out \in Outcomes(MaxBoxes - n_boxes) : infer_image(out)
    /\ UNCHANGED <<replay, cli>>

\* ------------------------------------------------------------- _generate_class_mapping
\* The class ids in descending order.
RECURSIVE SortedDescending(_)
SortedDescending(ids) ==
    IF ids = {} THEN <<>>
    ELSE LET greatest == CHOOSE c \in ids : \A d \in ids : c >= d
         IN  <<greatest>> \o SortedDescending(ids \ {greatest})

\* sorted(class_counter.keys()): ascending numeric order
RECURSIVE Sorted(_)
Sorted(ids) ==
    IF ids = {} THEN <<>>
    ELSE LET least == CHOOSE c \in ids : \A d \in ids : c <= d
         IN  <<least>> \o Sorted(ids \ {least})

\* The name the mapping gives a class id, lines 228-237.
MappingName(m, cn, cls_id) ==
    IF m.loaded /\ m.names.kind # "absent"
    THEN IF m.names.kind = "dict"
         THEN IF cls_id \in DOMAIN m.names.tbl
              THEN m.names.tbl[cls_id] ELSE ClassFallback(cls_id)
         ELSE IF m.names.kind = "list" /\ cls_id < Len(m.names.tbl)
              THEN m.names.tbl[cls_id + 1]
              ELSE ClassFallback(cls_id)
    ELSE IF cls_id < Len(cn) THEN cn[cls_id + 1] ELSE ClassFallback(cls_id)

\* A line of classes.txt: f"{class_name}\n"
ClassLine(class_name) == [name |-> class_name]

\* The loop body of lines 239-240 (and 245-246) over a list of names:
\* one line per name, class_to_idx[name] = idx (a later index replaces an earlier).
RECURSIVE Enumerate(_, _, _, _)
Enumerate(names, idx, lines, mapping) ==
    IF names = <<>>
    THEN [lines |-> lines, class_to_idx |-> mapping]
    ELSE Enumerate(Tail(names), idx + 1, Append(lines, ClassLine(names[1])),
                   (names[1] :> idx) @@ mapping)

\* A mapping that lists nothing when nothing was detected.
MappedNamesOnlyDetected(counter, m, cn) ==
    LET ids == Sorted(DOMAIN counter)
    IN  [i \in 1..Len(ids) |-> MappingName(m, cn, ids[i])]

\* The class names _generate_class_mapping enumerates, lines 223-246.
MappedNames(counter, m, cn) ==
    IF counter # <<>>
    THEN LET ids == Sorted(DOMAIN counter)
         IN  [i \in 1..Len(ids) |-> MappingName(m, cn, ids[i])]
    ELSE cn

ClassesFile == "classes.txt"

\* Line 173: _generate_class_mapping(class_counter, output_path);
\* open_ok: open(classes_file, 'w') returns.
generate_class_mapping(open_ok) ==
    LET e == Enumerate(MappedNames(class_counter, model, class_names), 0, <<>>, <<>>)
    IN  /\ pc = "Mapping"
        /\ IF open_ok
           THEN /\ files' = (ClassesFile :> e.lines) @@ files
                /\ class_to_idx' = e.class_to_idx
                /\ pc' = "Writing"
                /\ UNCHANGED <<session, out_dir_exists, images_arg, validated_images,
                               attempts, n_boxes, class_counter, all_results,
                               successful_predictions, failed_predictions, writes,
                               annotation_files_created, stats, raised>>
           \* the FileOperationError of line 252 leaves predict_image by line 211:
           \* the locals of the call are gone
           ELSE /\ Raise("FileOperationError", "class mapping")
                /\ FreshLocals
                /\ UNCHANGED <<files, images_arg>>

GenerateClassMapping ==
    /\ pc = "Mapping"
    /\ \E open_ok \in BOOLEAN : generate_class_mapping(open_ok)
    /\ UNCHANGED <<replay, cli>>

\* ------------------------------------------------------------- _write_annotation_file
\* The name the writer resolves for a class id, lines 266-277.
AnnotationName(m, cn, cls_id) ==
    IF m.rnames.kind = "dict" /\ cls_id \in DOMAIN m.rnames.tbl
    THEN m.rnames.tbl[cls_id]
    ELSE IF m.loaded /\ m.names.kind # "absent"
    THEN IF m.names.kind = "dict"
         THEN IF cls_id \in DOMAIN m.names.tbl
              THEN m.names.tbl[cls_id] ELSE ClassFallback(cls_id)
         ELSE IF m.names.kind = "list" /\ cls_id < Len(m.names.tbl)
              THEN m.names.tbl[cls_id + 1]
              ELSE ClassFallback(cls_id)
    ELSE IF cls_id < Len(cn) THEN cn[cls_id + 1] ELSE ClassFallback(cls_id)

\* A lookup that gives a name absent from the mapping the next free index.
NewClsIdAppended(mapping, name) ==
    IF name \in DOMAIN mapping THEN mapping[name] ELSE Cardinality(DOMAIN mapping)

\* class_to_idx.get(original_class_name, 0), line 280
NewClsId(mapping, name) == IF name \in DOMAIN mapping THEN mapping[name] ELSE 0

\* The loop of lines 258-287 over the detections of one image: the lines
\* the file holds when it ends, and whether it ended by an exception.
RECURSIVE WriteLines(_, _, _, _, _)
WriteLines(detections, lines, mapping, m, cn) ==
    IF detections = <<>>
    THEN [lines |-> lines, raised |-> FALSE]
    ELSE IF detections[1].xywhn = "None"
    THEN WriteLines(Tail(detections), lines, mapping, m, cn)
    ELSE IF detections[1].xywhn = "bad"
    THEN [lines |-> lines, raised |-> TRUE]
    ELSE WriteLines(Tail(detections),
                    Append(lines,
                           [index |-> NewClsId(mapping, AnnotationName(m, cn, detections[1].id)),
                            xywhn |-> detections[1].xywhn]),
                    mapping, m, cn)

\* A counter that advances whether or not the write completed.
CountCreatedAlways(created, write_raised) == created + 1

\* annotation_files_created after one write, lines 182-188
CountCreated(created, write_raised) ==
    IF write_raised THEN created ELSE created + 1

\* annotation_file = output_path / f"{filename}.txt", lines 179-180
AnnotationFile(image_path) == image_path.stem \o ".txt"

\* One iteration of the loop of lines 177-188, for the next retained image;
\* open_ok: open(annotation_file, 'w') returns.
write_annotation(open_ok) ==
    LET r == all_results[Len(writes) + 1]
        w == WriteLines(r.detections, <<>>, class_to_idx, model, class_names)
    IN  /\ pc = "Writing"
        /\ Len(writes) < Len(all_results)
        /\ IF ~open_ok
           THEN /\ writes' = Append(writes, "open failed")
                /\ UNCHANGED <<files, annotation_files_created>>
           ELSE /\ files' = (AnnotationFile(r.image_path) :> w.lines) @@ files
                /\ writes' = Append(writes, IF w.raised THEN "write failed" ELSE "ok")
                /\ annotation_files_created' =
                        CountCreated(annotation_files_created, w.raised)
        /\ UNCHANGED <<session, pc, out_dir_exists, images_arg, validated_images, attempts, n_boxes,
                       class_counter, all_results, successful_predictions,
                       failed_predictions, class_to_idx, stats, raised>>

WriteAnnotation ==
    /\ pc = "Writing"
    /\ \E open_ok \in BOOLEAN : write_annotation(open_ok)
    /\ UNCHANGED <<replay, cli>>

\* sum(class_counter.values())
RECURSIVE SumValues(_)
SumValues(counter) ==
    IF DOMAIN counter = {} THEN 0
    ELSE LET c == CHOOSE c \in DOMAIN counter : TRUE
         IN  counter[c] + SumValues([d \in DOMAIN counter \ {c} |-> counter[d]])

\* Lines 191-207: the statistics are built and returned.
ReturnStats ==
    /\ pc = "Writing"
    /\ Len(writes) = Len(all_results)
    /\ stats' = [total_images |-> Len(validated_images),
                 successful_predictions |-> successful_predictions,
                 failed_predictions |-> failed_predictions,
                 annotation_files_created |-> annotation_files_created,
                 classes_detected |-> Cardinality(DOMAIN class_counter),
                 total_detections |-> SumValues(class_counter),
                 class_distribution |-> class_counter]
    /\ pc' = "Done"
    /\ UNCHANGED <<session, out_dir_exists, files, images_arg, validated_images, attempts, n_boxes,
                   class_counter, all_results, successful_predictions,
                   failed_predictions, class_to_idx, writes, annotation_files_created,
                   raised>>
    /\ UNCHANGED <<replay, cli>>

Next ==
    \/ InitModel
    \/ PredictImage
    \/ ValidateImages
    \/ InferImage
    \/ GenerateClassMapping
    \/ WriteAnnotation
    \/ ReturnStats

Spec == Init /\ [][Next]_vars

\* ------------------------------------------------------------- the same batch twice
\* The box lists of a scripted result: boxes without class id or without
\* coordinates next to complete ones, of the smallest and the largest class id.
ScriptBoxLists ==
    { <<>>,
      << [kind |-> "det", id |-> 0, xywhn |-> "xywhn"] >>,
      << [kind |-> "det", id |-> MaxClassId, xywhn |-> "xywhn"] >>,
      << [kind |-> "nocls", id |-> 0, xywhn |-> "xywhn"],
         [kind |-> "det", id |-> MaxClassId, xywhn |-> "xywhn"] >>,
      << [kind |-> "det", id |-> 0, xywhn |-> "None"],
         [kind |-> "det", id |-> MaxClassId, xywhn |-> "xywhn"] >>,
      << [kind |-> "det", id |-> MaxClassId, xywhn |-> "xywhn"],
         [kind |-> "det", id |-> 0, xywhn |-> "xywhn"] >> }

\* What the detector does with one image: it raises, returns no result, a
\* result without boxes, or a result with one of the box lists.
ScriptOutcomes ==
    { [kind |-> k, boxes |-> <<>>] : k \in {"raise", "empty", "no_boxes"} }
        \cup { [kind |-> "boxes", boxes |-> b] : b \in ScriptBoxLists }

\* the threshold of both calls
ScriptConf == [is_number |-> TRUE, tenths |-> 5]

\* The adapter is set up once, by one init_model call.
InitOnce ==
    /\ pc = "Idle"
    /\ init_ret = "none"
    /\ \E name_arg \in ModelArgs, names_arg \in PromptArgs, load_ok, bind_ok \in BOOLEAN :
          \E det \in Detectors(validate_prompts(names_arg).names) :
              init_model(name_arg, names_arg, load_ok, bind_ok, det)
    /\ UNCHANGED <<replay, cli>>

\* The first predict_image(images, conf, output_dir): the image list is kept.
FirstPredict ==
    /\ pc = "Idle"
    /\ init_ret # "none"
    /\ run = 0
    /\ \E images_path \in PathLists :
          /\ predict_image(images_path, ScriptConf, TRUE)
          /\ script' = [images |-> images_path, outs |-> <<>>]
    /\ run' = 1
    /\ UNCHANGED <<first, cli>>

\* The detector does something with the next image: what it did is kept.
FirstInfer ==
    /\ pc = "Inferring"
    /\ run = 1
    /\ \E out \in ScriptOutcomes :
          /\ infer_image(out)
          /\ script' = [script EXCEPT !.outs = Append(@, out)]
    /\ UNCHANGED <<run, first, cli>>

\* The first call has returned or raised: the caller keeps what it produced
\* and the adapter can be called again.
ReplayReturn ==
    /\ pc \in {"Done", "Failed"}
    /\ run = 1
    /\ first' = [files |-> files, stats |-> stats, raised |-> raised]
    /\ pc' = "Idle"
    /\ UNCHANGED <<session, out_dir_exists, files, images_arg, validated_images, attempts,
                   n_boxes, class_counter, all_results, successful_predictions,
                   failed_predictions, class_to_idx, writes, annotation_files_created,
                   stats, raised, script, run, cli>>

\* The second predict_image: the same image list and threshold, into an
\* output directory of its own.
SecondPredict ==
    /\ pc = "Idle"
    /\ run = 1
    /\ predict_image(script.images, ScriptConf, TRUE)
    /\ run' = 2
    /\ UNCHANGED <<script, first, cli>>

\* A deterministic detector: it does with the image what it did the first time.
SecondInfer ==
    /\ pc = "Inferring"
    /\ run = 2
    /\ Len(attempts) < Len(script.outs)
    /\ infer_image(script.outs[Len(attempts) + 1])
    /\ UNCHANGED <<replay, cli>>

\* classes.txt can be written, in both calls
ReplayMapping ==
    /\ pc = "Mapping"
    /\ generate_class_mapping(TRUE)
    /\ UNCHANGED <<replay, cli>>

\* the annotation files can be opened, in both calls
ReplayWrite ==
    /\ pc = "Writing"
    /\ write_annotation(TRUE)
    /\ UNCHANGED <<replay, cli>>

TwoRunsNext ==
    \/ InitOnce
    \/ FirstPredict
    \/ ValidateImages
    \/ FirstInfer
    \/ ReplayMapping
    \/ ReplayWrite
    \/ ReturnStats
    \/ ReplayReturn
    \/ SecondPredict
    \/ SecondInfer

TwoRunsSpec == Init /\ [][TwoRunsNext]_vars

\* ------------------------------------------------------------- one batch to its end
\* One iteration of the inference loop, the detector doing one of the
\* scripted things with the image.
LightInfer ==
    /\ pc = "Inferring"
    /\ \E out \in ScriptOutcomes : infer_image(out)
    /\ UNCHANGED <<replay, cli>>

BatchNext ==
    \/ InitOnce
    \/ PredictImage
    \/ ValidateImages
    \/ LightInfer
    \/ GenerateClassMapping
    \/ WriteAnnotation
    \/ ReturnStats

\* predict_image runs on one thread, statement after statement: once a step
\* of the call is reached it is executed, the detector and the file system
\* returning or raising each time they are called.
BatchFairSpec ==
    /\ Init
    /\ [][BatchNext]_vars
    /\ WF_vars(ValidateImages)
    /\ WF_vars(LightInfer)
    /\ WF_vars(GenerateClassMapping)
    /\ WF_vars(WriteAnnotation)
    /\ WF_vars(ReturnStats)

\* ------------------------------------------------------------- main and run_automatic_labeling
\* The class each exception class derives from (helper/exceptions.py, and
\* the built-in classes that occur).
Parent(type) ==
    CASE type \in {"ConfigError", "ModelError", "ImageError", "ValidationError",
                   "FileOperationError"} -> "AutoLabelingError"
      [] type \in {"ModelInitializationError", "ModelPredictionError"} -> "ModelError"
      [] type \in {"ImageNotFoundError", "ImageFormatError"} -> "ImageError"
      [] type \in {"InvalidPathError", "InvalidParameterError"} -> "ValidationError"
      [] type \in {"AutoLabelingError", "RuntimeError"} -> "Exception"
      [] OTHER -> "BaseException"

\* isinstance(e, cls) for an exception e of the given class
RECURSIVE IsA(_, _)
IsA(type, cls) ==
    \/ type = cls
    \/ type # "BaseException" /\ IsA(Parent(type), cls)

\* A handler that re-raises everything it catches.
RunSurfacedAsIs(type) == type

\* How run_automatic_labeling ends when an exception of the given class
\* leaves its try block, lines 165-173: "None" when it returns None, else the
\* class of the exception it raises.
RunSurfaced(type) ==
    IF IsA(type, "KeyboardInterrupt") THEN "None"
    ELSE IF IsA(type, "AutoLabelingError") THEN type
    ELSE IF IsA(type, "Exception") THEN "AutoLabelingError"
    ELSE type

\* The except clauses of main, lines 206-228, in their order: the value main
\* returns for an exception of the given class, -1 when none of them catches it.
MainHandler(type) ==
    IF IsA(type, "ConfigError") THEN 2
    ELSE IF IsA(type, "InvalidParameterError") THEN 3
    ELSE IF IsA(type, "ModelInitializationError") THEN 4
    ELSE IF IsA(type, "ModelPredictionError") THEN 5
    ELSE IF IsA(type, "AutoLabelingError") THEN 6
    ELSE IF IsA(type, "Exception") THEN 99
    ELSE -1

\* An exception of the given class is raised in the try block of main.
MainRaise(type) ==
    /\ thrown' = type
    /\ exit_code' = MainHandler(type)
    /\ main_pc' = IF MainHandler(type) = -1 THEN "escaped" ELSE "exited"

\* An exception of the given class is raised in the try block of
\* run_automatic_labeling.
RunRaise(type) ==
    /\ thrown' = type
    /\ outcome' = RunSurfaced(type)
    /\ main_pc' = "returned"

\* the command lines argparse accepts: --model_name is one of valid_models,
\* --conf a float, --prompts the items between the commas
ArgLines ==
    { [model_name |-> m, prompts |-> p, conf |-> c, folders_ok |-> f, images |-> <<>>] :
        m \in valid_models, p \in PromptArgs, f \in BOOLEAN,
        c \in { [is_number |-> TRUE, tenths |-> t] : t \in {5, 20} } }

\* main is entered: a fresh process, no adapter yet
MainInit ==
    /\ Constructed
    /\ NoReplay
    /\ args = NoArgs
    /\ main_pc = "start"
    /\ calls = <<>>
    /\ thrown = ""
    /\ outcome = ""
    /\ exit_code = -1

\* Lines 180-191: the log is set up and the command line parsed; parse_args
\* raises SystemExit for a usage error or --help, and the set-up may fail.
ParseArgs ==
    /\ main_pc = "start"
    /\ \/ \E a \in ArgLines :
             /\ args' = a
             /\ main_pc' = "parsed"
             /\ UNCHANGED <<thrown, exit_code>>
       \/ \E type \in {"SystemExit", "RuntimeError", "ConfigError"} :
             /\ MainRaise(type)
             /\ UNCHANGED args
    /\ UNCHANGED <<session, batch, replay, calls, outcome>>

\* validate_arguments, lines 85-107: every failure is raised as
\* InvalidParameterError.
ValidateArguments ==
    /\ main_pc = "parsed"
    /\ IF /\ validate_confidence(args.conf)
          /\ validate_model_name(args.model_name)
          /\ validate_prompts(args.prompts).ok
          /\ args.folders_ok
       THEN /\ main_pc' = "validated"
            /\ UNCHANGED <<thrown, exit_code>>
       ELSE MainRaise("InvalidParameterError")
    /\ UNCHANGED <<session, batch, replay, args, calls, outcome>>

\* Line 116: helper.string_to_list(args.prompts)
StringToList ==
    /\ main_pc = "validated"
    /\ calls' = Append(calls, "string_to_list")
    /\ IF validate_prompts(args.prompts).ok
       THEN /\ main_pc' = "prompts"
            /\ UNCHANGED <<thrown, outcome>>
       ELSE RunRaise("InvalidParameterError")
    /\ UNCHANGED <<session, batch, replay, args, exit_code>>

\* What a scan returns: the files with an image extension found in the
\* folder, at least one (a file may be gone by the time it is used).
ScanLists ==
    { l \in PathLists :
        /\ l # <<>>
        /\ \A i \in 1..Len(l) :
              /\ Lower(l[i].suffix) \in default_image_extensions
              /\ l[i].is_file \/ ~l[i].exists }

\* Line 120: helper.scan_image_files(args.images_folder_path)
ScanImageFiles ==
    /\ main_pc = "prompts"
    /\ calls' = Append(calls, "scan_image_files")
    /\ \/ \E l \in ScanLists :
             /\ args' = [args EXCEPT !.images = l]
             /\ main_pc' = "scanned"
             /\ UNCHANGED <<thrown, outcome>>
       \/ \E type \in {"ImageNotFoundError", "FileOperationError"} :
             /\ RunRaise(type)
             /\ UNCHANGED args
    /\ UNCHANGED <<session, batch, replay, exit_code>>

\* Lines 124-128: Yoloe() and init_model(args.model_name, prompts); the
\* prompts are the validated items, which init_model validates again.
MainInitModel ==
    /\ main_pc = "scanned"
    /\ calls' = Append(calls, "init_model")
    /\ \E load_ok, bind_ok \in BOOLEAN :
          \E det \in Detectors(validate_prompts(args.prompts).names) :
              init_model(args.model_name, args.prompts, load_ok, bind_ok, det)
    /\ IF init_ret' = "True"
       THEN /\ main_pc' = "initialized"
            /\ UNCHANGED <<thrown, outcome>>
       ELSE RunRaise(init_ret')
    /\ UNCHANGED <<replay, args, exit_code>>

\* Line 142: predict_image(images_path, args.conf, args.output_folder) is entered.
MainPredict ==
    /\ main_pc = "initialized"
    /\ calls' = Append(calls, "predict_image")
    /\ \E mkdir_ok \in BOOLEAN : predict_image(args.images, args.conf, mkdir_ok)
    /\ main_pc' = "predicting"
    /\ UNCHANGED <<replay, args, thrown, outcome, exit_code>>

\* the steps of the predict_image call made by run_automatic_labeling
MainValidateImages ==
    /\ main_pc = "predicting"
    /\ ValidateImages

MainInfer ==
    /\ main_pc = "predicting"
    /\ LightInfer

MainMapping ==
    /\ main_pc = "predicting"
    /\ GenerateClassMapping

MainWrite ==
    /\ main_pc = "predicting"
    /\ WriteAnnotation

MainStats ==
    /\ main_pc = "predicting"
    /\ ReturnStats

\* Lines 142-163: predict_image returns the statistics, which
\* run_automatic_labeling returns, or raises.
PredictReturns ==
    /\ main_pc = "predicting"
    /\ pc \in {"Done", "Failed"}
    /\ IF pc = "Done"
       THEN /\ outcome' = "stats"
            /\ main_pc' = "returned"
            /\ UNCHANGED thrown
       ELSE RunRaise(raised.type)
    /\ UNCHANGED <<session, batch, replay, args, calls, exit_code>>

\* the positions inside the try block of run_automatic_labeling
InRun == {"validated", "prompts", "scanned", "initialized", "predicting"}

\* The user interrupts the run, or a statement of run_automatic_labeling
\* raises an exception of its own.
RunInterrupted ==
    /\ main_pc \in InRun
    /\ \E type \in {"KeyboardInterrupt", "RuntimeError", "ConfigError"} : RunRaise(type)
    /\ UNCHANGED <<session, batch, replay, args, calls, exit_code>>

\* Lines 197-228: run_automatic_labeling has returned or raised, and main
\* returns its exit code.
MainReturn ==
    /\ main_pc = "returned"
    /\ IF outcome = "stats"
       THEN exit_code' = 0 /\ main_pc' = "exited"
       ELSE IF outcome = "None"
       THEN exit_code' = 1 /\ main_pc' = "exited"
       ELSE /\ exit_code' = MainHandler(outcome)
            /\ main_pc' = IF MainHandler(outcome) = -1 THEN "escaped" ELSE "exited"
    /\ UNCHANGED <<session, batch, replay, args, calls, thrown, outcome>>

MainNext ==
    \/ ParseArgs
    \/ ValidateArguments
    \/ StringToList
    \/ ScanImageFiles
    \/ MainInitModel
    \/ MainPredict
    \/ MainValidateImages
    \/ MainInfer
    \/ MainMapping
    \/ MainWrite
    \/ MainStats
    \/ PredictReturns
    \/ RunInterrupted
    \/ MainReturn

MainSpec == MainInit /\ [][MainNext]_vars

\* ------------------------------------------------------------- claims
\* The batch has left _generate_class_mapping and no per-image file is written yet.
JustMapped == pc = "Writing" /\ writes = <<>>

\* the class id with exactly i smaller ids in the set
IthSmallest(ids, i) == CHOOSE c \in ids : Cardinality({d \in ids : d < c}) = i

\* the name on line i (0-based) of classes.txt, "" when there is no such line
ClassesLineAt(i) ==
    IF /\ ClassesFile \in DOMAIN files
       /\ i + 1 \in 1..Len(files[ClassesFile])
       /\ "name" \in DOMAIN files[ClassesFile][i + 1]
    THEN files[ClassesFile][i + 1].name
    ELSE ""

\* C1: when at least one detection was counted, the classes.txt that
\* _generate_class_mapping writes has exactly as many lines as class ids were
\* counted, and line i (0-based) is the name of the i-th smallest counted id.
C1_ClassesFileByAscendingId ==
    (JustMapped /\ class_counter # <<>>) =>
        /\ ClassesFile \in DOMAIN files
        /\ Len(files[ClassesFile]) = Cardinality(DOMAIN class_counter)
        /\ \A i \in 0..(Cardinality(DOMAIN class_counter) - 1) :
              files[ClassesFile][i + 1] =
                  ClassLine(MappingName(model, class_names,
                                        IthSmallest(DOMAIN class_counter, i)))

\* C1 witness: two ids were counted and the file lists person before car:
\* the order of the ids 0 and 1, not the alphabetic order of the names.
C1_Witness ==
    /\ JustMapped
    /\ DOMAIN class_counter = {0, 1}
    /\ files[ClassesFile] = <<ClassLine("person"), ClassLine("car")>>

\* C2: the index values of the mapping _generate_class_mapping returns are
\* exactly 0..N-1 for its N names, and N is the number of lines of classes.txt.
C2_MappingIndicesContiguous ==
    JustMapped =>
        LET N == Cardinality(DOMAIN class_to_idx)
        IN  /\ { class_to_idx[n] : n \in DOMAIN class_to_idx } = 0..(N - 1)
            /\ N = Len(files[ClassesFile])

\* the detections of a retained image that got a line: those with coordinates
Lined(detections) == SelectSeq(detections, LAMBDA d : d.xywhn # "None")

\* No retained image is written to the file name of the class list.
NoImageNamedClasses ==
    \A k \in 1..Len(all_results) : AnnotationFile(all_results[k].image_path) # ClassesFile

\* C3: round trip. After a per-image write that completed, every line of the
\* file names, through its index into classes.txt, the name the annotation
\* writer resolved for the class id of the detection the line was written for.
\* Stated for the batches in which classes.txt is still the file the mapping
\* wrote (no image named classes).
C3_RoundTrip ==
    (/\ pc = "Writing" /\ writes # <<>> /\ writes[Len(writes)] = "ok"
     /\ NoImageNamedClasses) =>
        LET r == all_results[Len(writes)]
            f == files[AnnotationFile(r.image_path)]
        IN  \A k \in 1..Len(Lined(r.detections)) :
                /\ k <= Len(f)
                /\ "index" \in DOMAIN f[k]
                /\ ClassesLineAt(f[k].index) =
                       AnnotationName(model, class_names, Lined(r.detections)[k].id)

\* the positions of the attempts with the given outcomes
Attempted(kinds) == { i \in 1..Len(attempts) : attempts[i] \in kinds }

\* C4: an exception while inferring or collecting one image stays inside the
\* iteration of that image: the image is counted failed and not retained, the
\* loop goes on to the next image until every validated image is attempted,
\* predict_image does not raise there, and the statistics it returns count it.
C4_InferenceFailureAbsorbed ==
    /\ [][pc = "Inferring" =>
            /\ pc' \in {"Inferring", "Mapping"}
            /\ raised' = NotRaised
            /\ Len(attempts') = Len(attempts) + 1
            /\ (pc' = "Mapping") = (Len(attempts') = Len(validated_images))
            /\ attempts'[Len(attempts')] = "raise" =>
                  /\ failed_predictions' = failed_predictions + 1
                  /\ successful_predictions' = successful_predictions
                  /\ all_results' = all_results]_vars
    /\ [](pc = "Done" =>
            /\ Len(attempts) = Len(validated_images)
            /\ stats.failed_predictions >= Cardinality(Attempted({"raise"})))

\* C4 witness: the first of two images raised, the second was still inferred
\* and retained, and the statistics were returned.
C4_Witness ==
    /\ pc = "Done"
    /\ attempts = <<"raise", "ok">>
    /\ stats.failed_predictions = 1
    /\ stats.successful_predictions = 1

\* the number of detections with class id c in a list of retained results
RECURSIVE AcceptedCount(_, _)
AcceptedCount(results, c) ==
    IF results = <<>> THEN 0
    ELSE Cardinality({ k \in 1..Len(results[1].detections) :
                         results[1].detections[k].id = c })
             + AcceptedCount(Tail(results), c)

\* the class ids of the detections of the retained images
AcceptedIds ==
    UNION { { all_results[r].detections[k].id : k \in 1..Len(all_results[r].detections) } :
            r \in 1..Len(all_results) }

\* C5: after a completed batch class_distribution maps exactly the class ids
\* of the accepted detections (those of the retained images) to their number
\* of accepted detections; total_detections is the sum of its values and
\* classes_detected its number of keys.
C5_DistributionOfAccepted ==
    pc = "Done" =>
        /\ DOMAIN stats.class_distribution = AcceptedIds
        /\ \A c \in AcceptedIds :
              stats.class_distribution[c] = AcceptedCount(all_results, c)
        /\ stats.total_detections = SumValues(stats.class_distribution)
        /\ stats.classes_detected = Cardinality(DOMAIN stats.class_distribution)

\* what predict_image raises while it validates, lines 98-125
ValidationFailures ==
    {"not initialized", "unknown: InvalidParameterError", "mkdir", "empty list",
     "no valid images"}

\* C6: once validation has passed predict_image does not raise: whenever it
\* has raised, it raised while validating.
C6_NoRaiseAfterValidation ==
    pc = "Failed" => raised.msg \in ValidationFailures

\* C7: in a completed batch successful_predictions + failed_predictions is
\* total_images, the number of validated paths; the failed images are exactly
\* those without a result or whose processing raised, none of them is retained
\* or written, and every other image is counted successful and retained.
C7_SuccessFailurePartition ==
    pc = "Done" =>
        /\ stats.total_images = Len(validated_images)
        /\ Len(attempts) = Len(validated_images)
        /\ stats.successful_predictions + stats.failed_predictions = stats.total_images
        /\ stats.failed_predictions = Cardinality(Attempted({"raise", "empty"}))
        /\ stats.successful_predictions = Cardinality(Attempted({"ok"}))
        /\ Len(all_results) = Cardinality(Attempted({"ok"}))
        /\ { all_results[k].image_path : k \in 1..Len(all_results) }
               = { validated_images[i] : i \in Attempted({"ok"}) }
        /\ Len(writes) = Len(all_results)
        /\ \A f \in DOMAIN files \ {ClassesFile} :
              \E k \in 1..Len(all_results) : f = AnnotationFile(all_results[k].image_path)

\* C7 witness: the detector returned no result for the first of two images,
\* and one annotation file was created, for the second.
C7_Witness ==
    /\ pc = "Done"
    /\ attempts = <<"empty", "ok">>
    /\ stats.total_images = 2
    /\ stats.successful_predictions = 1
    /\ stats.failed_predictions = 1
    /\ stats.annotation_files_created = 1

\* C8: a failed per-image write is absorbed: annotation_files_created counts
\* the writes that completed, successful_predictions stays the number of
\* retained images, and at the end a write was attempted for every one of them.
C8_WriteFailureAbsorbed ==
    pc \in {"Writing", "Done"} =>
        /\ annotation_files_created
               = Cardinality({ k \in 1..Len(writes) : writes[k] = "ok" })
        /\ successful_predictions = Len(all_results)
        /\ annotation_files_created <= successful_predictions
        /\ pc = "Done" =>
              /\ Len(writes) = Len(all_results)
              /\ stats.annotation_files_created = annotation_files_created
              /\ stats.successful_predictions = successful_predictions

\* C8 witness: the write of the first retained image failed, the second was
\* still written, and both stay counted as successful predictions.
C8_Witness ==
    /\ pc = "Done"
    /\ writes \in {<<"open failed", "ok">>, <<"write failed", "ok">>}
    /\ stats.annotation_files_created = 1
    /\ stats.successful_predictions = 2

\* C9: the retained images are written to pairwise distinct files, so that
\* after the batch the output directory holds annotation_files_created
\* per-image annotation files.  Stated for the batches in which every write
\* completed and no image is named classes.
C9_OneFilePerImage ==
    (/\ pc = "Done"
     /\ NoImageNamedClasses
     /\ \A k \in 1..Len(writes) : writes[k] = "ok") =>
        /\ \A i, j \in 1..Len(all_results) :
              i # j => AnnotationFile(all_results[i].image_path)
                           # AnnotationFile(all_results[j].image_path)
        /\ Cardinality(DOMAIN files \ {ClassesFile}) = stats.annotation_files_created

\* C10: classes.txt is written once: after the mapping is derived its content
\* stays the class list of the batch mapping until predict_image returns.
C10_ClassesFileWrittenOnce ==
    pc \in {"Writing", "Done"} =>
        /\ ClassesFile \in DOMAIN files
        /\ files[ClassesFile] =
              [i \in 1..Len(MappedNames(class_counter, model, class_names)) |->
                   ClassLine(MappedNames(class_counter, model, class_names)[i])]

\* C11: the class mapping is derived and classes.txt written only after every
\* validated image has been attempted; no file exists and no write has been
\* attempted before the mapping is fixed; from then on the per-image writes
\* leave the mapping as it is.
C11_MappingAfterAllAttempts ==
    /\ [](pc \in {"Idle", "Validating", "Inferring", "Mapping"} =>
              /\ files = <<>>
              /\ class_to_idx = <<>>
              /\ writes = <<>>)
    /\ [](pc \in {"Writing", "Done"} =>
              /\ Len(attempts) = Len(validated_images)
              /\ ClassesFile \in DOMAIN files)
    /\ [][pc = "Mapping" => Len(attempts) = Len(validated_images)]_vars
    /\ [][pc = "Writing" => class_to_idx' = class_to_idx]_vars

\* C11 witness: both images were attempted, the mapping is fixed, and the
\* first of the two per-image files is written.
C11_Witness ==
    /\ pc = "Writing"
    /\ Len(attempts) = 2
    /\ Len(writes) = 1 /\ writes[1] = "ok"
    /\ class_to_idx = [person |-> 0, car |-> 1]
    /\ Cardinality(DOMAIN files) = 2

\* C12: when no detection was counted in the batch, the classes.txt that
\* _generate_class_mapping writes lists the configured class names, one per
\* line, in their configured order; the configured names are those of the
\* last successful init_model: only a successful init_model changes them,
\* and a batch runs only when the most recent init_model succeeded.
C12_ConfiguredNamesWhenNoDetection ==
    /\ []((JustMapped /\ class_counter = <<>>) =>
              /\ ClassesFile \in DOMAIN files
              /\ Len(files[ClassesFile]) = Len(class_names)
              /\ \A i \in 1..Len(class_names) :
                    files[ClassesFile][i] = ClassLine(class_names[i]))
    /\ [](pc \in {"Validating", "Inferring", "Mapping", "Writing", "Done"} =>
              init_ret = "True")
    /\ [][class_names' # class_names => init_ret' = "True" /\ pc' = "Idle"]_vars

\* C12 witness: one image without detections, and classes.txt lists person
\* and car as configured (not in alphabetic order).
C12_Witness ==
    /\ JustMapped
    /\ class_counter = <<>>
    /\ class_names = <<"person", "car">>
    /\ files[ClassesFile] = <<ClassLine("person"), ClassLine("car")>>

\* C13: an image whose result came back without an exception is counted
\* successful and retained, also when the result carries no detection; and
\* right after the completed write of a retained image without detections
\* its annotation file exists and is empty.
C13_NoDetectionsIsSuccess ==
    /\ pc \in {"Inferring", "Mapping", "Writing", "Done"} =>
          /\ successful_predictions = Cardinality(Attempted({"ok"}))
          /\ Len(all_results) = Cardinality(Attempted({"ok"}))
    /\ (/\ pc \in {"Writing", "Done"}
        /\ writes # <<>>
        /\ writes[Len(writes)] = "ok"
        /\ all_results[Len(writes)].detections = <<>>) =>
          /\ AnnotationFile(all_results[Len(writes)].image_path) \in DOMAIN files
          /\ files[AnnotationFile(all_results[Len(writes)].image_path)] = <<>>

\* C13 witness: a batch of one image (b.jpg) whose result had no detection:
\* one successful prediction, and b.txt is there and empty.
C13_Witness ==
    /\ pc = "Done"
    /\ Len(all_results) = 1
    /\ all_results[1].detections = <<>>
    /\ stats.successful_predictions = 1
    /\ stats.failed_predictions = 0
    /\ stats.annotation_files_created = 1
    /\ "b.txt" \in DOMAIN files
    /\ files["b.txt"] = <<>>

\* the annotation lines present in the output directory: [file, position]
AnnotationLines ==
    UNION { { <<f, k>> : k \in { j \in 1..Len(files[f]) : "index" \in DOMAIN files[f][j] } } :
            f \in DOMAIN files }

\* C14: every class index on an annotation line is at least 0 and less than
\* classes_detected, the number of counted class ids, whether it was looked
\* up in the mapping or is the index 0 given to a name absent from it.
C14_IndexWithinClassesDetected ==
    pc \in {"Writing", "Done"} =>
        /\ \A l \in AnnotationLines :
              /\ 0 <= files[l[1]][l[2]].index
              /\ files[l[1]][l[2]].index < Cardinality(DOMAIN class_counter)
        /\ pc = "Done" => stats.classes_detected = Cardinality(DOMAIN class_counter)

\* C14 witness: the writer resolved "object" for class id 0, a name the
\* mapping does not have, and wrote the line with index 0; one class id was
\* counted.
C14_Witness ==
    /\ pc = "Done"
    /\ model.rnames = DictTable(0 :> "object")
    /\ "object" \notin DOMAIN class_to_idx
    /\ stats.classes_detected = 1
    /\ \E l \in AnnotationLines : files[l[1]][l[2]].index = 0

\* C15: when predict_image fails because the path list is empty or because
\* every path was dropped, the output directory has not been created.
C15_NoDirectoryWhenNoImages ==
    (pc = "Failed" /\ raised.msg \in {"empty list", "no valid images"}) =>
        ~out_dir_exists

\* the paths of a list that exist, are files and have an allowed extension
Passing(paths) ==
    SelectSeq(paths, LAMBDA q : /\ q.exists
                                /\ q.is_file
                                /\ Lower(q.suffix) \in default_image_extensions)

\* C16: the validation of the paths keeps exactly the paths that exist, are
\* files and have an allowed extension, in order, and goes on to inference
\* when one is left; when none is left, and when the list was empty,
\* predict_image fails with ModelPredictionError and nothing was inferred;
\* the validated paths stay as they are for the rest of the batch and
\* total_images is their number.
C16_InvalidPathsDropped ==
    /\ [][pc = "Validating" =>
            IF Passing(images_arg) # <<>>
            THEN /\ pc' = "Inferring"
                 /\ validated_images' = Passing(images_arg)
                 /\ raised' = NotRaised
            ELSE /\ pc' = "Failed"
                 /\ raised' = [type |-> "ModelPredictionError", msg |-> "no valid images"]]_vars
    /\ [][(pc \in {"Inferring", "Mapping", "Writing"} /\ pc' # "Failed") =>
            validated_images' = validated_images]_vars
    /\ []((pc = "Failed" /\ raised.msg \in {"empty list", "no valid images"}) =>
            /\ raised.type = "ModelPredictionError"
            /\ attempts = <<>>
            /\ n_boxes = 0)
    /\ [](pc = "Done" => stats.total_images = Len(validated_images))

\* C16 witness: every path of a non-empty list was dropped and predict_image
\* raised ModelPredictionError without an inference.
C16_Witness ==
    /\ pc = "Failed"
    /\ raised = [type |-> "ModelPredictionError", msg |-> "no valid images"]
    /\ attempts = <<>>
    /\ validated_images = <<>>

\* C17: when predict_image rejects the confidence, nothing has happened: the
\* output directory is not created, no path is validated, no image inferred,
\* no file written, and the step that raises leaves the session as it was.
C17_BadConfidenceNoSideEffect ==
    /\ []((pc = "Failed" /\ raised.msg = "unknown: InvalidParameterError") =>
            /\ ~out_dir_exists
            /\ images_arg = <<>>
            /\ validated_images = <<>>
            /\ attempts = <<>>
            /\ n_boxes = 0
            /\ files = <<>>
            /\ writes = <<>>)
    /\ [][pc' = "Failed" => UNCHANGED session]_vars

\* C17 witness: a ready adapter was handed a bad confidence and raised.
C17_Witness ==
    /\ pc = "Failed"
    /\ raised.msg = "unknown: InvalidParameterError"
    /\ is_initialized
    /\ init_ret = "True"
    /\ ~out_dir_exists

\* C18: whenever predict_image has raised, what it raised is a
\* ModelPredictionError or a FileOperationError; the InvalidParameterError of
\* a rejected confidence surfaces as ModelPredictionError.
C18_OnlyTwoErrorKinds ==
    pc = "Failed" =>
        /\ raised.type \in {"ModelPredictionError", "FileOperationError"}
        /\ raised.msg = "unknown: InvalidParameterError" =>
              raised.type = "ModelPredictionError"

\* C18 witness: the confidence was rejected and the caller sees a
\* ModelPredictionError.
C18_Witness ==
    /\ pc = "Failed"
    /\ raised = [type |-> "ModelPredictionError", msg |-> "unknown: InvalidParameterError"]

\* C19: when the output directory cannot be created predict_image raises
\* FileOperationError, and no path is validated, no image inferred and no
\* file written.
C19_MkdirFailureIsFileOperationError ==
    (pc = "Failed" /\ raised.msg = "mkdir") =>
        /\ raised.type = "FileOperationError"
        /\ ~out_dir_exists
        /\ images_arg = <<>>
        /\ validated_images = <<>>
        /\ attempts = <<>>
        /\ n_boxes = 0
        /\ files = <<>>
        /\ writes = <<>>

\* C19 witness: mkdir failed for a ready adapter with a valid confidence.
C19_Witness ==
    /\ pc = "Failed"
    /\ raised = [type |-> "FileOperationError", msg |-> "mkdir"]
    /\ is_initialized

\* C20: a predict_image call on an adapter that was never initialized, or
\* whose most recent init_model failed, raises the "not initialized"
\* ModelPredictionError, and nothing was validated, created or inferred.
C20_NotReadyRejected ==
    [][(pc = "Idle" /\ pc' \in {"Validating", "Failed"} /\ init_ret # "True") =>
          /\ pc' = "Failed"
          /\ raised' = [type |-> "ModelPredictionError", msg |-> "not initialized"]
          /\ ~out_dir_exists'
          /\ images_arg' = <<>>
          /\ validated_images' = <<>>
          /\ attempts' = <<>>
          /\ n_boxes' = 0
          /\ files' = <<>>]_vars

\* C20 witness: an init_model succeeded, a later one failed, and the
\* predict_image call that followed was rejected as not initialized.
C20_Witness ==
    /\ pc = "Failed"
    /\ raised.msg = "not initialized"
    /\ init_ret = "ModelInitializationError"
    /\ model.loaded
    /\ model_name # ""

\* C21: the model object, model_name and class_names held by the adapter
\* come from one init_model call: a model object held next to a model name is
\* the file of that name, bound to the configured class names.
C21_SameCallConfiguration ==
    (model.loaded /\ model_name # "") =>
        /\ model.file = model_name
        /\ model.bound = class_names

\* the names arguments that validate_prompts rejects: empty, blank, illegal
RejectedPrompts == { << <<"a","/","b">> >>, << <<" ">> >>, << >> }

\* C22: an init_model(m, names) call that returns True replaces the session
\* whatever it was: is_initialized is true, model_name is m, class_names are
\* the validated names in order (stripped, blanks dropped), the model object
\* is the one bound to them, and get_model_info reports their count.
C22_SuccessReplacesSession ==
    [][(pc = "Idle" /\ pc' = "Idle" /\ init_ret' = "True") =>
          \A name_arg \in ModelArgs, names_arg \in PromptArgs :
              \A det \in Detectors(validate_prompts(names_arg).names) :
                  init_model(name_arg, names_arg, TRUE, TRUE, det) =>
                      /\ is_initialized'
                      /\ model_name' = name_arg
                      /\ names_arg = << <<"p","e","r","s","o","n">>, <<" ","c","a","r">> >>
                            => class_names' = <<"person", "car">>
                      /\ names_arg = << <<" ","c","a","t">>, <<" ">>, <<"c","a","t"," ">> >>
                            => class_names' = <<"cat", "cat">>
                      /\ names_arg \notin RejectedPrompts
                      /\ model'.file = name_arg
                      /\ model'.bound = class_names'
                      /\ get_model_info(is_initialized', model_name', class_names')
                            = [is_initialized |-> TRUE, model_name |-> name_arg,
                               class_names |-> class_names',
                               num_classes |-> Len(class_names')]]_vars

\* C22 witness: init_model succeeded with the names " cat", " ", "cat " on an
\* adapter: two class names are configured and reported.
C22_Witness ==
    /\ pc = "Idle"
    /\ init_ret = "True"
    /\ is_initialized
    /\ class_names = <<"cat", "cat">>
    /\ model.bound = class_names
    /\ get_model_info(is_initialized, model_name, class_names).num_classes = 2

\* C23: init_model ends by returning True or by raising
\* ModelInitializationError, never otherwise; a call with a model name outside
\* the valid set, rejected class names, a missing model file, a load error or
\* a binding error raises ModelInitializationError, and is_initialized is
\* false after every call that raised.
C23_InitFailureIsInitializationError ==
    /\ [](init_ret \in {"none", "True", "ModelInitializationError"})
    /\ [](init_ret = "ModelInitializationError" => ~is_initialized)
    /\ [][(pc = "Idle" /\ pc' = "Idle") =>
            \A name_arg \in ModelArgs, names_arg \in PromptArgs, load_ok, bind_ok \in BOOLEAN :
                \A det \in Detectors(validate_prompts(names_arg).names) :
                    (/\ init_model(name_arg, names_arg, load_ok, bind_ok, det)
                     /\ \/ name_arg \notin valid_models
                        \/ names_arg \in RejectedPrompts
                        \/ name_arg \notin model_files
                        \/ ~load_ok
                        \/ ~bind_ok) =>
                        /\ init_ret' = "ModelInitializationError"
                        /\ ~is_initialized']_vars

\* C23 witness: an init_model call loaded the model file and failed to bind
\* the vocabulary: it raised ModelInitializationError and the adapter is not
\* ready.
C23_Witness ==
    /\ pc = "Idle"
    /\ init_ret = "ModelInitializationError"
    /\ ~is_initialized
    /\ model.loaded
    /\ model.bound = <<>>

\* a name table holds an entry for the class id
TableHas(t, cls_id) ==
    \/ t.kind = "dict" /\ cls_id \in DOMAIN t.tbl
    \/ t.kind = "list" /\ cls_id < Len(t.tbl)

\* the entry of a name table for a class id it holds
TableAt(t, cls_id) == IF t.kind = "dict" THEN t.tbl[cls_id] ELSE t.tbl[cls_id + 1]

\* the priority chain: the result's table, else the model-level table, else
\* the configured list by position, else class_{id}
ChainName(m, cn, cls_id) ==
    IF TableHas(m.rnames, cls_id) THEN TableAt(m.rnames, cls_id)
    ELSE IF TableHas(m.names, cls_id) THEN TableAt(m.names, cls_id)
    ELSE IF cls_id < Len(cn) THEN cn[cls_id + 1]
    ELSE ClassFallback(cls_id)

\* C24: the name the annotation writer resolves for the class id of every
\* retained detection is the name of the priority chain: result table, then
\* model-level table, then configured list, then class_{id}.
C24_PriorityChain ==
    pc \in {"Writing", "Done"} =>
        \A r \in 1..Len(all_results) :
            \A k \in 1..Len(all_results[r].detections) :
                AnnotationName(model, class_names, all_results[r].detections[k].id)
                    = ChainName(model, class_names, all_results[r].detections[k].id)

\* C29: no step of predict_image changes the adapter session: is_initialized,
\* model_name, class_names and the model object stay as they were through
\* every step of a batch, whether it ends by returning statistics or by
\* raising; an adapter whose batch failed after the readiness check is
\* still ready.
C29_PredictLeavesSession ==
    /\ [][(pc # "Idle" \/ pc' # "Idle") =>
            /\ is_initialized' = is_initialized
            /\ model_name' = model_name
            /\ class_names' = class_names
            /\ model' = model]_vars
    /\ []((pc = "Failed" /\ raised.msg # "not initialized") =>
            /\ is_initialized
            /\ model.loaded
            /\ init_ret = "True")

\* C29 witness: a batch of a ready adapter failed when classes.txt could not
\* be written, and the adapter is as ready as before.
C29_Witness ==
    /\ pc = "Failed"
    /\ raised = [type |-> "FileOperationError", msg |-> "class mapping"]
    /\ is_initialized
    /\ model.loaded
    /\ class_names = <<"person", "car">>

\* C25: when predict_image is called a second time on the same adapter with
\* the same image list and threshold and a detector that does the same with
\* each image, into another output directory, the second call ends as the
\* first did: the same classes.txt and annotation files, the same statistics.
C25_SameBatchSameOutput ==
    (run = 2 /\ pc \in {"Done", "Failed"}) =>
        /\ files = first.files
        /\ stats = first.stats
        /\ raised = first.raised

\* C25 witness: both calls wrote classes.txt and a.txt with two lines and
\* counted two detections.
C25_Witness ==
    /\ run = 2
    /\ pc = "Done"
    /\ first.stats.total_detections = 2
    /\ stats.total_detections = 2
    /\ ClassesFile \in DOMAIN files
    /\ "a.txt" \in DOMAIN files
    /\ Len(files["a.txt"]) = 2
    /\ files = first.files

\* the position of an element in a sequence without repetition
IndexOf(seq, x) == CHOOSE i \in 1..Len(seq) : seq[i] = x

\* the boxes with a class id and coordinates
Complete(boxes) == SelectSeq(boxes, LAMBDA b : b.kind = "det" /\ b.xywhn = "xywhn")

\* C28: right after the write of a retained image, the write has completed
\* and the file holds exactly one line for each box the detector returned
\* with a class id and with coordinates, in the detector's order; the boxes
\* without class id or without coordinates left no line.
C28_PartialDetectionsSkipped ==
    (pc \in {"Writing", "Done"} /\ writes # <<>>) =>
        LET r == all_results[Len(writes)]
            out == script.outs[IndexOf(validated_images, r.image_path)]
            f == files[AnnotationFile(r.image_path)]
        IN  /\ writes[Len(writes)] = "ok"
            /\ Len(f) = Len(Complete(out.boxes))
            /\ \A j \in 1..Len(f) :
                  f[j] = [index |-> NewClsId(class_to_idx,
                                             AnnotationName(model, class_names,
                                                            Complete(out.boxes)[j].id)),
                          xywhn |-> "xywhn"]

\* C28 witness: the detector returned a box without class id and a complete
\* box for the only image, and its file holds one line.
C28_Witness ==
    /\ pc = "Done"
    /\ run = 1
    /\ Len(validated_images) = 1
    /\ script.outs[1].boxes = << [kind |-> "nocls", id |-> 0, xywhn |-> "xywhn"],
                                 [kind |-> "det", id |-> MaxClassId, xywhn |-> "xywhn"] >>
    /\ writes = <<"ok">>
    /\ Len(files[AnnotationFile(validated_images[1])]) = 1

\* the exit code the outcome of a run stands for
ClaimedExitCode(result) ==
    CASE result = "stats" -> 0
      [] result = "None" -> 1
      [] result = "ConfigError" -> 2
      [] result = "InvalidParameterError" -> 3
      [] result = "ModelInitializationError" -> 4
      [] result = "ModelPredictionError" -> 5
      [] result \in {"AutoLabelingError", "FileOperationError", "ImageNotFoundError"} -> 6
      [] OTHER -> 99

\* C26: main always ends by returning an exit code, never by an exception,
\* and the code is the one of the outcome: 0 statistics, 1 interrupted, 2
\* ConfigError, 3 InvalidParameterError, 4 ModelInitializationError, 5
\* ModelPredictionError, 6 any other AutoLabelingError, 99 anything else.
C26_ExitCodes ==
    main_pc \in {"exited", "escaped"} =>
        /\ main_pc = "exited"
        /\ exit_code = ClaimedExitCode(IF outcome # "" THEN outcome ELSE thrown)

\* the steps of run_automatic_labeling, in their order
RunOrder == <<"string_to_list", "scan_image_files", "init_model", "predict_image">>

\* C27: run_automatic_labeling invokes its steps in the order parse prompts,
\* scan images, init_model, predict_image, each at most once; no step is
\* invoked once a step has failed or the run was interrupted; predict_image
\* is invoked only when init_model returned True; the run ends with the
\* statistics only after all four steps; a KeyboardInterrupt makes it return
\* None, an AutoLabelingError is raised as it is and any other exception is
\* raised as AutoLabelingError.
C27_StepsInOrder ==
    /\ [](/\ Len(calls) <= Len(RunOrder)
          /\ \A i \in 1..Len(calls) : calls[i] = RunOrder[i])
    /\ [][calls' # calls =>
            /\ outcome = ""
            /\ thrown = ""
            /\ calls' = Append(calls, RunOrder[Len(calls) + 1])]_vars
    /\ [](Len(calls) = Len(RunOrder) => init_ret = "True")
    /\ [](outcome = "stats" => (calls = RunOrder /\ pc = "Done" /\ thrown = ""))
    /\ []((main_pc = "returned" /\ thrown # "") =>
            outcome = IF thrown = "KeyboardInterrupt" THEN "None"
                      ELSE IF IsA(thrown, "AutoLabelingError") THEN thrown
                      ELSE "AutoLabelingError")

\* C27 witness: the scan failed: run_automatic_labeling raised the
\* ImageNotFoundError, and neither init_model nor predict_image was invoked.
C27_Witness ==
    /\ main_pc = "returned"
    /\ thrown = "ImageNotFoundError"
    /\ outcome = "ImageNotFoundError"
    /\ calls = <<"string_to_list", "scan_image_files">>
    /\ model = NoModel
    /\ pc = "Idle"

\* C30: a predict_image call that has passed its entry checks comes to its
\* end, returning statistics or raising; on the way each iteration of the
\* inference loop attempts the next validated image and no other, so that
\* every validated image is attempted exactly once, and each iteration of
\* the write loop makes the one write attempt of the next retained image, so
\* that no more annotation files exist than images were retained.
C30_PredictTerminates ==
    /\ (pc \in {"Validating", "Inferring", "Mapping", "Writing"})
           ~> (pc \in {"Done", "Failed"})
    /\ [][pc = "Inferring" =>
            /\ Len(attempts') = Len(attempts) + 1
            /\ Len(attempts') <= Len(validated_images)
            /\ (pc' = "Mapping") = (Len(attempts') = Len(validated_images))
            /\ all_results' # all_results =>
                  all_results' = Append(all_results, all_results'[Len(all_results')])
                  /\ all_results'[Len(all_results')].image_path
                         = validated_images[Len(attempts')]]_vars
    /\ [][(pc = "Writing" /\ pc' = "Writing") =>
            /\ Len(writes') = Len(writes) + 1
            /\ Len(writes') <= Len(all_results)]_vars
    /\ [](pc \in {"Writing", "Done"} =>
            /\ Len(attempts) = Len(validated_images)
            /\ Cardinality(DOMAIN files \ {ClassesFile}) <= Len(writes)
            /\ annotation_files_created <= Len(all_results))
    /\ [](pc = "Done" => (Len(writes) = Len(all_results) /\ stats # <<>>))
    /\ [](pc = "Failed" => raised # NotRaised)

\* C30 witness: the first of two images failed and was not attempted again,
\* the write of the second failed and was not attempted again, and the call
\* returned its statistics.
C30_Witness ==
    /\ pc = "Done"
    /\ Len(validated_images) = 2
    /\ attempts = <<"raise", "ok">>
    /\ writes = <<"open failed">>
    /\ stats.annotation_files_created = 0
    /\ stats.failed_predictions = 1

====
